---------------------------- MODULE Spec2Model ----------------------------
(***************************************************************************)
(* Model of the bookkeeper ledger: Account (src/model/account.rs) and      *)
(* Bookkeeper (src/model/bookkeeper.rs).                                   *)
(*                                                                         *)
(* Decimal values are integers counting units of 10^-(MAX_DECIMAL_PLACES+1)*)
(* so that an input amount may carry one more fractional digit than the    *)
(* ledger keeps, and adjust_scale really rounds.  Option<T> is a sequence  *)
(* of length 0 (None) or 1 (Some).  A HashMap is a function whose DOMAIN   *)
(* is its key set.  Result<T, TxError> is a record [err, val] with         *)
(* err = "Ok" on success.                                                  *)
(*                                                                         *)
(* rust_decimal is an external crate: Decimal::checked_add / checked_sub   *)
(* are taken to be exact and to yield None when the result leaves          *)
(* [-DecimalMax, DecimalMax], the scaled-down range of a Decimal.          *)
(*                                                                         *)
(* A handler is an operator from (account, transaction) to the account     *)
(* after the call and the returned Result; one Route step is one iteration *)
(* of the read loop: Bookkeeper::on_tx applied to the next record.         *)
(* last_tx and last_result hold that record and what on_tx returned for it.*)
(*                                                                         *)
(* Spec feeds on_tx any transaction at each step.  SpecReader runs         *)
(* process_reader over one finite stream fixed at the start: stream is the *)
(* sequence of rows as deserialize returns them (Some(tx), or None for a   *)
(* row that does not decode), processed the number of rows read, pc the    *)
(* position of process_reader ("reading" in the loop, "done" once it has   *)
(* returned Ok).  Errors of the csv reader itself are not rows of the      *)
(* stream.                                                                 *)
(***************************************************************************)
EXTENDS Integers, Sequences, FiniteSets, TLC

VARIABLES accounts, last_tx, last_result, processed, stream, pc

vars == <<accounts, last_tx, last_result, processed, stream, pc>>

(* ------------------------------ bounds -------------------------------- *)

NumClients == 2

NumTxIds == 2

DecimalMax == 30

MaxTx == 4

MaxStream == 2

MaxCalls == 3

ClientIds == 1..NumClients

TxIds == 1..NumTxIds

(* ----------------------------- constants ------------------------------ *)

MAX_DECIMAL_PLACES == 4

ScaleStep == 10

None == <<>>

Some(v) == <<v>>

Unwrap(o) == o[1]

Amounts == {None, Some(-10), Some(0), Some(16)}

TxTypes == {"Deposit", "Withdrawal", "Dispute", "Resolve", "ChargeBack"}

(* the stream carries an amount on deposit and withdrawal rows only *)
Transaction ==
    [type : {"Deposit", "Withdrawal"}, client_id : ClientIds, tx_id : TxIds, amount : Amounts]
    \cup [type : {"Dispute", "Resolve", "ChargeBack"}, client_id : ClientIds, tx_id : TxIds,
          amount : {None}]

DepositStatus == {"Normal", "Disputed", "Resolved", "ChargedBack"}

OkResult == "Ok"

InvalidClientError == "InvalidClientError"

MissingAmountError == "MissingAmountError"

InvalidAmountError == "InvalidAmountError"

InvalidTxIdError == "InvalidTxIdError"

LockedAccountError == "LockedAccountError"

InvalidOperatioonError == "InvalidOperatioonError"

TxError == {InvalidClientError, MissingAmountError, InvalidAmountError, InvalidTxIdError,
            LockedAccountError, InvalidOperatioonError}

(* Result<Decimal, TxError> and Result<(), TxError> *)
Ok(v) == [err |-> OkResult, val |-> v]

Err(e) == [err |-> e, val |-> 0]

(* --------------------------- Decimal arithmetic ----------------------- *)

InRange(v) == -DecimalMax <= v /\ v <= DecimalMax

checked_add(a, b) == IF InRange(a + b) THEN Some(a + b) ELSE None

checked_sub(a, b) == IF InRange(a - b) THEN Some(a - b) ELSE None

(* Decimal::rescale to MAX_DECIMAL_PLACES: midpoint away from zero *)
adjust_scale(amt) ==
    IF amt >= 0
      THEN ((amt + (ScaleStep \div 2)) \div ScaleStep) * ScaleStep
      ELSE -((((-amt) + (ScaleStep \div 2)) \div ScaleStep) * ScaleStep)

(* ------------------------------ Account ------------------------------- *)

EmptyMap == [k \in {} |-> 0]

MapInsert(m, k, v) == [x \in (DOMAIN m) \cup {k} |-> IF x = k THEN v ELSE m[x]]

Deposit(amount, status) == [amount |-> amount, status |-> status]

Account_new(client_id) ==
    [client_id |-> client_id,
     held_amount |-> 0,
     available_amount |-> 0,
     total_amount |-> 0,
     locked |-> FALSE,
     deposit_history |-> EmptyMap,
     withdrawal_history |-> EmptyMap]

Outcome(acct, res) == [acct |-> acct, res |-> res]

(* variant: the locked flag is not consulted *)
validate_account_unchecked(self) ==
    OkResult

validate_account(self) ==
    IF self.locked THEN LockedAccountError ELSE OkResult

(* variant: a zero amount passes the sign check *)
validate_amount_zero_allowed(tx) ==
    IF tx.amount # None
      THEN IF Unwrap(tx.amount) < 0
             THEN Err(InvalidAmountError)
             ELSE Ok(Unwrap(tx.amount))
      ELSE Err(MissingAmountError)

validate_amount(tx) ==
    IF tx.amount # None
      THEN IF Unwrap(tx.amount) <= 0
             THEN Err(InvalidAmountError)
             ELSE Ok(Unwrap(tx.amount))
      ELSE Err(MissingAmountError)

(* variant: the deposit history is not consulted for the tx id *)
validate_deposit_no_replay_check(self, tx) ==
    LET amount == validate_amount(tx) IN
    IF amount.err # OkResult THEN amount
    ELSE Ok(amount.val)

validate_deposit(self, tx) ==
    LET amount == validate_amount(tx) IN
    IF amount.err # OkResult THEN amount
    ELSE IF tx.tx_id \in DOMAIN self.deposit_history THEN Err(InvalidTxIdError)
    ELSE Ok(amount.val)

(* variant: the duplicate-id check runs before the funds check *)
validate_withdraw_replay_first(self, tx) ==
    LET amount == validate_amount(tx) IN
    IF amount.err # OkResult THEN amount
    ELSE IF tx.tx_id \in DOMAIN self.withdrawal_history THEN Err(InvalidTxIdError)
    ELSE IF amount.val > self.available_amount THEN Err(InvalidAmountError)
    ELSE Ok(amount.val)

(* variant: the withdrawal history is not consulted for the tx id *)
validate_withdraw_no_replay_check(self, tx) ==
    LET amount == validate_amount(tx) IN
    IF amount.err # OkResult THEN amount
    ELSE IF amount.val > self.available_amount THEN Err(InvalidAmountError)
    ELSE Ok(amount.val)

validate_withdraw(self, tx) ==
    LET amount == validate_amount(tx) IN
    IF amount.err # OkResult THEN amount
    ELSE IF amount.val > self.available_amount THEN Err(InvalidAmountError)
    ELSE IF tx.tx_id \in DOMAIN self.withdrawal_history THEN Err(InvalidTxIdError)
    ELSE Ok(amount.val)

(* variant: only an open dispute blocks a new dispute *)
validate_dispute_allows_redispute(history, tx) ==
    IF tx.tx_id \in DOMAIN history
      THEN IF history[tx.tx_id].status = "Disputed"
             THEN Err(InvalidOperatioonError)
             ELSE Ok(history[tx.tx_id].amount)
      ELSE Err(InvalidTxIdError)

validate_dispute(history, tx) ==
    IF tx.tx_id \in DOMAIN history
      THEN IF history[tx.tx_id].status # "Normal"
             THEN Err(InvalidOperatioonError)
             ELSE Ok(history[tx.tx_id].amount)
      ELSE Err(InvalidTxIdError)

(* variant: an unknown tx id is reported as a wrong-status operation *)
validate_resolve_absent_is_invalid_operation(history, tx) ==
    IF tx.tx_id \in DOMAIN history
      THEN IF history[tx.tx_id].status # "Disputed"
             THEN Err(InvalidOperatioonError)
             ELSE Ok(history[tx.tx_id].amount)
      ELSE Err(InvalidOperatioonError)

validate_resolve(history, tx) ==
    IF tx.tx_id \in DOMAIN history
      THEN IF history[tx.tx_id].status # "Disputed"
             THEN Err(InvalidOperatioonError)
             ELSE Ok(history[tx.tx_id].amount)
      ELSE Err(InvalidTxIdError)

(* variant: the record's status is not checked *)
validate_chargeback_any_status(history, tx) ==
    IF tx.tx_id \in DOMAIN history
      THEN Ok(history[tx.tx_id].amount)
      ELSE Err(InvalidTxIdError)

validate_chargeback(history, tx) ==
    IF tx.tx_id \in DOMAIN history
      THEN IF history[tx.tx_id].status # "Disputed"
             THEN Err(InvalidOperatioonError)
             ELSE Ok(history[tx.tx_id].amount)
      ELSE Err(InvalidTxIdError)

(* variant: the status update rebuilds the record and loses its amount *)
SetStatus_loses_amount(history, tx_id, status) ==
    [history EXCEPT ![tx_id] = Deposit(0, status)]

SetStatus(history, tx_id, status) ==
    [history EXCEPT ![tx_id].status = status]

(* variant: available is committed before the total has been checked *)
on_deposit_partial_commit(self, tx) ==
    IF validate_account(self) # OkResult THEN Outcome(self, validate_account(self))
    ELSE LET v == validate_deposit(self, tx) IN
    IF v.err # OkResult THEN Outcome(self, v.err)
    ELSE LET amount == adjust_scale(v.val)
             new_available == checked_add(self.available_amount, amount)
             new_total == checked_add(self.total_amount, amount) IN
    IF new_available # None /\ new_total # None
      THEN Outcome([self EXCEPT !.available_amount = Unwrap(new_available),
                                !.total_amount = Unwrap(new_total),
                                !.deposit_history =
                                    MapInsert(@, tx.tx_id, Deposit(amount, "Normal"))],
                   OkResult)
      ELSE IF new_available # None
        THEN Outcome([self EXCEPT !.available_amount = Unwrap(new_available)],
                     InvalidAmountError)
        ELSE Outcome(self, InvalidAmountError)

on_deposit(self, tx) ==
    IF validate_account(self) # OkResult THEN Outcome(self, validate_account(self))
    ELSE LET v == validate_deposit(self, tx) IN
    IF v.err # OkResult THEN Outcome(self, v.err)
    ELSE LET amount == adjust_scale(v.val)
             new_available == checked_add(self.available_amount, amount)
             new_total == checked_add(self.total_amount, amount) IN
    IF new_available # None /\ new_total # None
      THEN Outcome([self EXCEPT !.available_amount = Unwrap(new_available),
                                !.total_amount = Unwrap(new_total),
                                !.deposit_history =
                                    MapInsert(@, tx.tx_id, Deposit(amount, "Normal"))],
                   OkResult)
      ELSE Outcome(self, InvalidAmountError)

(* variant: the amount is taken off the balances as given, not rescaled *)
on_withdraw_unscaled(self, tx) ==
    IF validate_account(self) # OkResult THEN Outcome(self, validate_account(self))
    ELSE LET v == validate_withdraw(self, tx) IN
    IF v.err # OkResult THEN Outcome(self, v.err)
    ELSE LET amount == v.val
             new_available == checked_sub(self.available_amount, amount)
             new_total == checked_sub(self.total_amount, amount) IN
    IF /\ new_available # None
       /\ Unwrap(new_available) >= 0
       /\ new_total # None
       /\ Unwrap(new_total) >= 0
      THEN Outcome([self EXCEPT !.available_amount = Unwrap(new_available),
                                !.total_amount = Unwrap(new_total),
                                !.withdrawal_history = MapInsert(@, tx.tx_id, tx)],
                   OkResult)
      ELSE Outcome(self, InvalidAmountError)

on_withdraw(self, tx) ==
    IF validate_account(self) # OkResult THEN Outcome(self, validate_account(self))
    ELSE LET v == validate_withdraw(self, tx) IN
    IF v.err # OkResult THEN Outcome(self, v.err)
    ELSE LET amount == adjust_scale(v.val)
             new_available == checked_sub(self.available_amount, amount)
             new_total == checked_sub(self.total_amount, amount) IN
    IF /\ new_available # None
       /\ Unwrap(new_available) >= 0
       /\ new_total # None
       /\ Unwrap(new_total) >= 0
      THEN Outcome([self EXCEPT !.available_amount = Unwrap(new_available),
                                !.total_amount = Unwrap(new_total),
                                !.withdrawal_history = MapInsert(@, tx.tx_id, tx)],
                   OkResult)
      ELSE Outcome(self, InvalidAmountError)

(* variant: the disputed amount is held but not taken out of available *)
on_dispute_keeps_available(self, tx) ==
    IF validate_account(self) # OkResult THEN Outcome(self, validate_account(self))
    ELSE LET v == validate_dispute(self.deposit_history, tx) IN
    IF v.err # OkResult THEN Outcome(self, v.err)
    ELSE LET amount == v.val
             new_held == checked_add(self.held_amount, amount)
             new_available == checked_sub(self.available_amount, amount) IN
    IF new_held # None /\ new_available # None
      THEN Outcome([self EXCEPT !.deposit_history = SetStatus(@, tx.tx_id, "Disputed"),
                                !.held_amount = Unwrap(new_held)],
                   OkResult)
      ELSE Outcome(self, InvalidAmountError)

on_dispute(self, tx) ==
    IF validate_account(self) # OkResult THEN Outcome(self, validate_account(self))
    ELSE LET v == validate_dispute(self.deposit_history, tx) IN
    IF v.err # OkResult THEN Outcome(self, v.err)
    ELSE LET amount == v.val
             new_held == checked_add(self.held_amount, amount)
             new_available == checked_sub(self.available_amount, amount) IN
    IF new_held # None /\ new_available # None
      THEN Outcome([self EXCEPT !.deposit_history = SetStatus(@, tx.tx_id, "Disputed"),
                                !.held_amount = Unwrap(new_held),
                                !.available_amount = Unwrap(new_available)],
                   OkResult)
      ELSE Outcome(self, InvalidAmountError)

(* variant: the released amount leaves held but is not credited to available *)
on_resolve_no_credit(self, tx) ==
    IF validate_account(self) # OkResult THEN Outcome(self, validate_account(self))
    ELSE LET v == validate_resolve(self.deposit_history, tx) IN
    IF v.err # OkResult THEN Outcome(self, v.err)
    ELSE LET amount == v.val
             new_held == checked_sub(self.held_amount, amount)
             new_available == checked_add(self.available_amount, amount) IN
    IF new_held # None /\ new_available # None
      THEN Outcome([self EXCEPT !.held_amount = Unwrap(new_held),
                                !.deposit_history = SetStatus(@, tx.tx_id, "Resolved")],
                   OkResult)
      ELSE Outcome(self, InvalidAmountError)

(* variant: the released amount is taken off available instead of credited *)
on_resolve_debits_available(self, tx) ==
    IF validate_account(self) # OkResult THEN Outcome(self, validate_account(self))
    ELSE LET v == validate_resolve(self.deposit_history, tx) IN
    IF v.err # OkResult THEN Outcome(self, v.err)
    ELSE LET amount == v.val
             new_held == checked_sub(self.held_amount, amount)
             new_available == checked_sub(self.available_amount, amount) IN
    IF new_held # None /\ new_available # None
      THEN Outcome([self EXCEPT !.held_amount = Unwrap(new_held),
                                !.available_amount = Unwrap(new_available),
                                !.deposit_history = SetStatus(@, tx.tx_id, "Resolved")],
                   OkResult)
      ELSE Outcome(self, InvalidAmountError)

on_resolve(self, tx) ==
    IF validate_account(self) # OkResult THEN Outcome(self, validate_account(self))
    ELSE LET v == validate_resolve(self.deposit_history, tx) IN
    IF v.err # OkResult THEN Outcome(self, v.err)
    ELSE LET amount == v.val
             new_held == checked_sub(self.held_amount, amount)
             new_available == checked_add(self.available_amount, amount) IN
    IF new_held # None /\ new_available # None
      THEN Outcome([self EXCEPT !.held_amount = Unwrap(new_held),
                                !.available_amount = Unwrap(new_available),
                                !.deposit_history = SetStatus(@, tx.tx_id, "Resolved")],
                   OkResult)
      ELSE Outcome(self, InvalidAmountError)

(* variant: the charged back amount leaves total but stays in held *)
on_chargeback_keeps_held(self, tx) ==
    IF validate_account(self) # OkResult THEN Outcome(self, validate_account(self))
    ELSE LET v == validate_chargeback(self.deposit_history, tx) IN
    IF v.err # OkResult THEN Outcome(self, v.err)
    ELSE LET amount == v.val
             new_held == checked_sub(self.held_amount, amount)
             new_total == checked_sub(self.total_amount, amount) IN
    IF new_held # None /\ new_total # None
      THEN Outcome([self EXCEPT !.total_amount = Unwrap(new_total),
                                !.deposit_history = SetStatus(@, tx.tx_id, "ChargedBack"),
                                !.locked = TRUE],
                   OkResult)
      ELSE Outcome(self, InvalidAmountError)

(* variant: the charge back is booked but the account is not locked *)
on_chargeback_does_not_lock(self, tx) ==
    IF validate_account(self) # OkResult THEN Outcome(self, validate_account(self))
    ELSE LET v == validate_chargeback(self.deposit_history, tx) IN
    IF v.err # OkResult THEN Outcome(self, v.err)
    ELSE LET amount == v.val
             new_held == checked_sub(self.held_amount, amount)
             new_total == checked_sub(self.total_amount, amount) IN
    IF new_held # None /\ new_total # None
      THEN Outcome([self EXCEPT !.held_amount = Unwrap(new_held),
                                !.total_amount = Unwrap(new_total),
                                !.deposit_history = SetStatus(@, tx.tx_id, "ChargedBack")],
                   OkResult)
      ELSE Outcome(self, InvalidAmountError)

on_chargeback(self, tx) ==
    IF validate_account(self) # OkResult THEN Outcome(self, validate_account(self))
    ELSE LET v == validate_chargeback(self.deposit_history, tx) IN
    IF v.err # OkResult THEN Outcome(self, v.err)
    ELSE LET amount == v.val
             new_held == checked_sub(self.held_amount, amount)
             new_total == checked_sub(self.total_amount, amount) IN
    IF new_held # None /\ new_total # None
      THEN Outcome([self EXCEPT !.held_amount = Unwrap(new_held),
                                !.total_amount = Unwrap(new_total),
                                !.deposit_history = SetStatus(@, tx.tx_id, "ChargedBack"),
                                !.locked = TRUE],
                   OkResult)
      ELSE Outcome(self, InvalidAmountError)

Account_on_tx(self, tx) ==
    CASE tx.type = "Deposit" -> on_deposit(self, tx)
      [] tx.type = "Withdrawal" -> on_withdraw(self, tx)
      [] tx.type = "Dispute" -> on_dispute(self, tx)
      [] tx.type = "Resolve" -> on_resolve(self, tx)
      [] tx.type = "ChargeBack" -> on_chargeback(self, tx)

(* ----------------------------- Bookkeeper ----------------------------- *)

Bookkeeper_new == EmptyMap

(* accounts.entry(client_id).or_insert(Account::new(client_id)) *)
EntryOrInsert(accts, client_id) ==
    IF client_id \in DOMAIN accts THEN accts[client_id] ELSE Account_new(client_id)

(* variant: the account map is keyed by the tx id instead of the client id *)
Bookkeeper_on_tx_keyed_by_tx_id(accts, tx) ==
    LET out == Account_on_tx(EntryOrInsert(accts, tx.tx_id), tx) IN
    [accounts |-> MapInsert(accts, tx.tx_id, out.acct), res |-> out.res]

Bookkeeper_on_tx(accts, tx) ==
    LET out == Account_on_tx(EntryOrInsert(accts, tx.client_id), tx) IN
    [accounts |-> MapInsert(accts, tx.client_id, out.acct), res |-> out.res]

(* ------------------------------ behaviour ----------------------------- *)

Init ==
    /\ accounts = Bookkeeper_new
    /\ last_tx = None
    /\ last_result = None
    /\ processed = 0
    /\ stream = <<>>
    /\ pc = "reading"

Route(tx) ==
    LET out == Bookkeeper_on_tx(accounts, tx) IN
    /\ processed < MaxTx
    /\ processed' = processed + 1
    /\ accounts' = out.accounts
    /\ last_tx' = Some(tx)
    /\ last_result' = Some(out.res)
    /\ UNCHANGED <<stream, pc>>

RouteDeposit == \E tx \in Transaction : tx.type = "Deposit" /\ Route(tx)

RouteWithdrawal == \E tx \in Transaction : tx.type = "Withdrawal" /\ Route(tx)

RouteDispute == \E tx \in Transaction : tx.type = "Dispute" /\ Route(tx)

RouteResolve == \E tx \in Transaction : tx.type = "Resolve" /\ Route(tx)

RouteChargeBack == \E tx \in Transaction : tx.type = "ChargeBack" /\ Route(tx)

Next ==
    \/ RouteDeposit
    \/ RouteWithdrawal
    \/ RouteDispute
    \/ RouteResolve
    \/ RouteChargeBack

Spec == Init /\ [][Next]_vars

(* ----------------------- Bookkeeper::on_tx alone ---------------------- *)

(* on_tx called directly, as the unit tests do: the caller keeps neither the
   transaction nor the result *)
OnTx(tx) ==
    /\ processed < MaxCalls
    /\ processed' = processed + 1
    /\ accounts' = Bookkeeper_on_tx(accounts, tx).accounts
    /\ UNCHANGED <<last_tx, last_result, stream, pc>>

CallOnTx == \E tx \in Transaction : OnTx(tx)

NextRouter == CallOnTx

SpecRouter == Init /\ [][NextRouter]_vars

(* ------------------------- process_reader ----------------------------- *)

(* rows of a stream all carry the same tx id, so that replays and disputes
   meet earlier rows *)
StreamRows == {None} \cup {Some(tx) : tx \in {t \in Transaction : t.tx_id = 1}}

Streams == UNION {[1..n -> StreamRows] : n \in 0..MaxStream}

InitReader ==
    /\ accounts = Bookkeeper_new
    /\ last_tx = None
    /\ last_result = None
    /\ processed = 0
    /\ stream \in Streams
    /\ pc = "reading"

(* variant: the error of on_tx is propagated with ? and ends the run *)
ReadTransaction_stops_on_error ==
    /\ pc = "reading"
    /\ processed < Len(stream)
    /\ stream[processed + 1] # None
    /\ LET tx == Unwrap(stream[processed + 1])
           out == Bookkeeper_on_tx(accounts, tx) IN
       /\ accounts' = out.accounts
       /\ last_tx' = Some(tx)
       /\ last_result' = Some(out.res)
       /\ pc' = IF out.res # OkResult THEN "failed" ELSE pc
    /\ processed' = processed + 1
    /\ UNCHANGED stream

(* Ok(tx): on_tx is applied and its error, if any, is logged *)
ReadTransaction ==
    /\ pc = "reading"
    /\ processed < Len(stream)
    /\ stream[processed + 1] # None
    /\ LET tx == Unwrap(stream[processed + 1])
           out == Bookkeeper_on_tx(accounts, tx) IN
       /\ accounts' = out.accounts
       /\ last_tx' = Some(tx)
       /\ last_result' = Some(out.res)
    /\ processed' = processed + 1
    /\ UNCHANGED <<stream, pc>>

(* Err(e): the row is logged and skipped *)
SkipUndecodable ==
    /\ pc = "reading"
    /\ processed < Len(stream)
    /\ stream[processed + 1] = None
    /\ processed' = processed + 1
    /\ UNCHANGED <<accounts, last_tx, last_result, stream, pc>>

(* read_record returns false: the loop ends and Ok(()) is returned *)
FinishReader ==
    /\ pc = "reading"
    /\ processed = Len(stream)
    /\ pc' = "done"
    /\ UNCHANGED <<accounts, last_tx, last_result, processed, stream>>

NextReader ==
    \/ ReadTransaction
    \/ SkipUndecodable
    \/ FinishReader

(* the loop is sequential code that neither blocks nor waits *)
SpecReader == InitReader /\ [][NextReader]_vars /\ WF_vars(NextReader)

TypeOK ==
    /\ DOMAIN accounts \subseteq ClientIds
    /\ processed \in 0..MaxTx
    /\ last_tx \in {None} \cup {Some(t) : t \in Transaction}
    /\ last_result \in {None} \cup {Some(r) : r \in TxError \cup {OkResult}}
    /\ stream \in Streams
    /\ pc \in {"reading", "done"}

(* ------------------------------ properties ---------------------------- *)

LastTx == Unwrap(last_tx)

LastRes == Unwrap(last_result)

Routed == last_tx # None

(* the account a routed transaction is applied to *)
Target(tx) == accounts'[tx.client_id]

Known(c) == c \in DOMAIN accounts

HasRecord(c, t) == Known(c) /\ t \in DOMAIN accounts[c].deposit_history

Balances(a) == <<a.available_amount, a.held_amount, a.total_amount>>

(* C1: in every reachable state every account satisfies
   total == available + held. *)
C1_TotalIsAvailablePlusHeld ==
    \A c \in DOMAIN accounts :
        accounts[c].total_amount = accounts[c].available_amount + accounts[c].held_amount

(* C1 witness: an account with funds on hold, a withdrawal on record and a
   status other than Normal reached, after a successful transaction. *)
C1_Witness ==
    /\ Routed /\ LastRes = OkResult
    /\ \E c \in DOMAIN accounts :
          /\ accounts[c].held_amount > 0
          /\ accounts[c].withdrawal_history # EmptyMap
          /\ accounts[c].available_amount # 0

(* C2: in every reachable state every account has available >= 0,
   held >= 0 and total >= 0, also after a Dispute (and a following
   ChargeBack) of a deposit whose funds were already withdrawn. *)
C2_NonNegativeBalances ==
    \A c \in DOMAIN accounts :
        /\ accounts[c].available_amount >= 0
        /\ accounts[c].held_amount >= 0
        /\ accounts[c].total_amount >= 0

(* C3: once an account is locked it stays locked, and every later
   transaction on it fails with LockedAccount and leaves the balances and
   the deposit records (the whole account) unchanged. *)
C3_LockFinality ==
    [][\A c \in DOMAIN accounts :
          accounts[c].locked =>
              /\ c \in DOMAIN accounts'
              /\ accounts'[c].locked
              /\ Balances(accounts'[c]) = Balances(accounts[c])
              /\ accounts'[c].deposit_history = accounts[c].deposit_history
              /\ (Unwrap(last_tx').client_id = c =>
                     Unwrap(last_result') = LockedAccountError)]_vars

(* C3 witness: a deposit with a non-positive amount and an unknown tx id
   was refused on a locked account. *)
C3_Witness ==
    /\ Routed /\ LastRes = LockedAccountError
    /\ LastTx.type = "Deposit" /\ LastTx.amount = Some(0)
    /\ LastTx.tx_id \notin DOMAIN accounts[LastTx.client_id].deposit_history
    /\ accounts[LastTx.client_id].locked

(* C4: routing a Withdrawal, Dispute, Resolve or ChargeBack whose client
   has no account fails with InvalidClient. *)
C4_UnknownClientRejected ==
    [][(/\ Unwrap(last_tx').type # "Deposit"
        /\ ~Known(Unwrap(last_tx').client_id))
          => Unwrap(last_result') = InvalidClientError]_vars

(* C5: accounts are created only by Deposit transactions; a non-Deposit
   for an unseen client leaves the set of accounts unchanged. *)
C5_AccountsCreatedOnlyByDeposit ==
    [][\A c \in ClientIds :
          (~Known(c) /\ c \in DOMAIN accounts') => Unwrap(last_tx').type = "Deposit"]_vars

(* C6: when applying a transaction to an account returns an error, the
   account (balances, locked flag, deposit records, withdrawal history) is
   exactly what it was before the call. *)
C6_FailureAtomicity ==
    [][Unwrap(last_result') # OkResult =>
          LET c == Unwrap(last_tx').client_id IN
          Target(Unwrap(last_tx')) = IF Known(c) THEN accounts[c] ELSE Account_new(c)]_vars

(* C6 witness: a valid deposit passed validation and was then refused for
   overflow of the total while available alone would have fitted. *)
C6_Witness ==
    /\ Routed /\ LastRes = InvalidAmountError
    /\ LastTx.type = "Deposit"
    /\ LastTx.amount # None /\ Unwrap(LastTx.amount) > 0
    /\ LET a == accounts[LastTx.client_id] IN
          /\ a.available_amount + adjust_scale(Unwrap(LastTx.amount)) <= DecimalMax
          /\ a.total_amount + adjust_scale(Unwrap(LastTx.amount)) > DecimalMax

(* C7: on an unlocked account a Deposit with a positive amount whose tx id
   already keys a deposit record, whatever its status, fails with
   InvalidTxId and leaves the balances and the record unchanged. *)
C7_DepositAntiReplay ==
    [][LET tx == Unwrap(last_tx') IN
       (/\ tx.type = "Deposit"
        /\ tx.amount # None /\ Unwrap(tx.amount) > 0
        /\ HasRecord(tx.client_id, tx.tx_id)
        /\ ~accounts[tx.client_id].locked)
          => /\ Unwrap(last_result') = InvalidTxIdError
             /\ Balances(Target(tx)) = Balances(accounts[tx.client_id])
             /\ Target(tx).deposit_history = accounts[tx.client_id].deposit_history]_vars

(* C7 witness: a replayed deposit was refused although its record had
   already left the Normal status. *)
C7_Witness ==
    /\ Routed /\ LastRes = InvalidTxIdError
    /\ LastTx.type = "Deposit"
    /\ HasRecord(LastTx.client_id, LastTx.tx_id)
    /\ accounts[LastTx.client_id].deposit_history[LastTx.tx_id].status = "Resolved"

StatusEdges ==
    {<<"Normal", "Disputed">>, <<"Disputed", "Resolved">>, <<"Disputed", "ChargedBack">>}

(* C8: a deposit record's status changes only along Normal->Disputed,
   Disputed->Resolved, Disputed->ChargedBack; it never returns to Normal,
   Resolved and ChargedBack are terminal, so a record enters Disputed at
   most once. *)
C8_StatusOnlyForward ==
    [][\A c \in DOMAIN accounts : \A t \in DOMAIN accounts[c].deposit_history :
          /\ c \in DOMAIN accounts'
          /\ t \in DOMAIN accounts'[c].deposit_history
          /\ LET old == accounts[c].deposit_history[t].status
                 new == accounts'[c].deposit_history[t].status IN
             old = new \/ <<old, new>> \in StatusEdges]_vars

(* C8 witness: a second dispute of a record that is already Resolved was
   attempted on an unlocked account. *)
C8_Witness ==
    /\ Routed /\ LastTx.type = "Dispute"
    /\ HasRecord(LastTx.client_id, LastTx.tx_id)
    /\ ~accounts[LastTx.client_id].locked
    /\ accounts[LastTx.client_id].deposit_history[LastTx.tx_id].status = "Resolved"

(* C9 (as stated): a Resolve or ChargeBack naming an existing record that is
   Normal, Resolved or ChargedBack fails with InvalidOperation. *)
C9_WrongStatusIsInvalidOperation ==
    [][LET tx == Unwrap(last_tx') IN
       (/\ tx.type \in {"Resolve", "ChargeBack"}
        /\ HasRecord(tx.client_id, tx.tx_id)
        /\ accounts[tx.client_id].deposit_history[tx.tx_id].status
              \in {"Normal", "Resolved", "ChargedBack"})
          => Unwrap(last_result') = InvalidOperatioonError]_vars

(* C9 (amended): on an unlocked account a Resolve or ChargeBack naming an
   existing record that is Normal or Resolved fails with InvalidOperation;
   a ChargedBack record exists only on a locked account, and on a locked
   account the call fails with LockedAccount. *)
C9_WrongStatusUnlessLocked ==
    [][LET tx == Unwrap(last_tx') IN
       (/\ tx.type \in {"Resolve", "ChargeBack"}
        /\ HasRecord(tx.client_id, tx.tx_id)
        /\ accounts[tx.client_id].deposit_history[tx.tx_id].status
              \in {"Normal", "Resolved", "ChargedBack"})
          => /\ Unwrap(last_result') =
                   IF accounts[tx.client_id].locked
                     THEN LockedAccountError ELSE InvalidOperatioonError
             /\ accounts[tx.client_id].deposit_history[tx.tx_id].status = "ChargedBack"
                   => accounts[tx.client_id].locked]_vars

(* C9 witness: a ChargeBack of an already Resolved record was refused with
   InvalidOperation. *)
C9_Witness ==
    /\ Routed /\ LastRes = InvalidOperatioonError
    /\ LastTx.type = "ChargeBack"
    /\ HasRecord(LastTx.client_id, LastTx.tx_id)
    /\ accounts[LastTx.client_id].deposit_history[LastTx.tx_id].status = "Resolved"

(* C10: on an unlocked account a Withdrawal with a positive amount greater
   than available fails with InvalidAmount and leaves available, held and
   total unchanged, even when total would cover the amount. *)
C10_WithdrawalAboveAvailable ==
    [][LET tx == Unwrap(last_tx') IN
       (/\ tx.type = "Withdrawal"
        /\ tx.amount # None /\ Unwrap(tx.amount) > 0
        /\ Known(tx.client_id)
        /\ ~accounts[tx.client_id].locked
        /\ Unwrap(tx.amount) > accounts[tx.client_id].available_amount)
          => /\ Unwrap(last_result') = InvalidAmountError
             /\ Balances(Target(tx)) = Balances(accounts[tx.client_id])]_vars

(* C10 witness: a withdrawal that total would have covered was refused
   because part of the funds is held. *)
C10_Witness ==
    /\ Routed /\ LastRes = InvalidAmountError
    /\ LastTx.type = "Withdrawal"
    /\ LastTx.amount # None /\ Unwrap(LastTx.amount) > 0
    /\ LET a == accounts[LastTx.client_id] IN
          /\ ~a.locked
          /\ a.held_amount > 0
          /\ Unwrap(LastTx.amount) > a.available_amount
          /\ Unwrap(LastTx.amount) <= a.total_amount

HasWithdrawal(c, t) == Known(c) /\ t \in DOMAIN accounts[c].withdrawal_history

(* C11 (as stated): on an unlocked account a Withdrawal with a positive
   amount whose tx id was used by an earlier successful Withdrawal fails
   with InvalidTxId and leaves the balances unchanged, whatever the
   available balance. *)
C11_WithdrawalAntiReplay ==
    [][LET tx == Unwrap(last_tx') IN
       (/\ tx.type = "Withdrawal"
        /\ tx.amount # None /\ Unwrap(tx.amount) > 0
        /\ HasWithdrawal(tx.client_id, tx.tx_id)
        /\ ~accounts[tx.client_id].locked)
          => /\ Unwrap(last_result') = InvalidTxIdError
             /\ Balances(Target(tx)) = Balances(accounts[tx.client_id])]_vars

(* C11 (amended): such a replayed Withdrawal always fails and leaves the
   balances and the withdrawal history unchanged; it fails with InvalidTxId
   when its amount is at most the available balance and with InvalidAmount
   when its amount exceeds the available balance. *)
C11_WithdrawalReplayRefused ==
    [][LET tx == Unwrap(last_tx') IN
       (/\ tx.type = "Withdrawal"
        /\ tx.amount # None /\ Unwrap(tx.amount) > 0
        /\ HasWithdrawal(tx.client_id, tx.tx_id)
        /\ ~accounts[tx.client_id].locked)
          => /\ Unwrap(last_result') =
                   IF Unwrap(tx.amount) > accounts[tx.client_id].available_amount
                     THEN InvalidAmountError ELSE InvalidTxIdError
             /\ Balances(Target(tx)) = Balances(accounts[tx.client_id])
             /\ Target(tx).withdrawal_history
                   = accounts[tx.client_id].withdrawal_history]_vars

(* C11 witness: a replayed withdrawal that the available balance would have
   covered was refused with InvalidTxId. *)
C11_Witness ==
    /\ Routed /\ LastRes = InvalidTxIdError
    /\ LastTx.type = "Withdrawal"
    /\ HasWithdrawal(LastTx.client_id, LastTx.tx_id)
    /\ Unwrap(LastTx.amount) <= accounts[LastTx.client_id].available_amount

(* C12: on an unlocked account a Deposit or Withdrawal with no amount fails
   with MissingAmount and one with an amount <= 0 fails with InvalidAmount,
   whether its tx id is new or used; no balance changes and no record is
   created. *)
C12_AmountRequiredAndPositive ==
    [][LET tx == Unwrap(last_tx')
           before == IF Known(tx.client_id)
                       THEN accounts[tx.client_id] ELSE Account_new(tx.client_id) IN
       (/\ tx.type \in {"Deposit", "Withdrawal"}
        /\ ~before.locked
        /\ (tx.amount = None \/ Unwrap(tx.amount) <= 0))
          => /\ Unwrap(last_result') =
                   IF tx.amount = None THEN MissingAmountError ELSE InvalidAmountError
             /\ Balances(Target(tx)) = Balances(before)
             /\ Target(tx).deposit_history = before.deposit_history
             /\ Target(tx).withdrawal_history = before.withdrawal_history]_vars

(* C12 witness: a zero-amount withdrawal carrying an already used tx id was
   refused with InvalidAmount on an unlocked account. *)
C12_Witness ==
    /\ Routed /\ LastRes = InvalidAmountError
    /\ LastTx.type = "Withdrawal" /\ LastTx.amount = Some(0)
    /\ HasWithdrawal(LastTx.client_id, LastTx.tx_id)
    /\ ~accounts[LastTx.client_id].locked

(* C13: processing a finite transaction stream runs to completion: a
   transaction that fails does not stop processing, and every transaction of
   the stream is applied exactly once, in arrival order, before the run
   finishes. *)
C13_StreamRunsToCompletion ==
    /\ [][/\ processed' \in {processed, processed + 1}
          /\ processed' = processed + 1 =>
                \/ /\ stream[processed'] = None
                   /\ accounts' = accounts
                \/ /\ stream[processed'] # None
                   /\ last_tx' = stream[processed']
                   /\ accounts' = Bookkeeper_on_tx(accounts, Unwrap(stream[processed'])).accounts
          /\ processed' = processed => accounts' = accounts
          /\ pc' = "done" => processed' = Len(stream)]_vars
    /\ <>(pc = "done" /\ processed = Len(stream))

(* C13 witness: a run has finished whose first transaction failed and whose
   second transaction was applied successfully. *)
C13_Witness ==
    /\ pc = "done" /\ Len(stream) = 2 /\ processed = 2
    /\ stream[1] # None /\ Unwrap(stream[1]).type = "Dispute"
    /\ stream[2] # None /\ Unwrap(stream[2]).type = "Deposit"
    /\ LastRes = OkResult
    /\ accounts[LastTx.client_id].deposit_history # EmptyMap

DisputeOf(c, t) == [type |-> "Dispute", client_id |-> c, tx_id |-> t, amount |-> None]

ResolveOf(c, t) == [type |-> "Resolve", client_id |-> c, tx_id |-> t, amount |-> None]

(* C14: a successful Dispute of a Normal record with amount a gives
   available' = available - a, held' = held + a, total unchanged and status
   Disputed; a Resolve of that record applied directly afterwards succeeds,
   restores available, held and total to their values before the Dispute
   and leaves the record Resolved. *)
C14_DisputeThenResolveRoundTrip ==
    /\ [][LET tx == Unwrap(last_tx') IN
          (tx.type = "Dispute" /\ Unwrap(last_result') = OkResult)
             => /\ HasRecord(tx.client_id, tx.tx_id)
                /\ LET old == accounts[tx.client_id]
                       new == Target(tx)
                       a == old.deposit_history[tx.tx_id].amount IN
                   /\ old.deposit_history[tx.tx_id].status = "Normal"
                   /\ new.available_amount = old.available_amount - a
                   /\ new.held_amount = old.held_amount + a
                   /\ new.total_amount = old.total_amount
                   /\ new.deposit_history[tx.tx_id].status = "Disputed"]_vars
    /\ [](\A c \in DOMAIN accounts : \A t \in DOMAIN accounts[c].deposit_history :
             LET d == Account_on_tx(accounts[c], DisputeOf(c, t)) IN
             d.res = OkResult =>
                 LET r == Account_on_tx(d.acct, ResolveOf(c, t)) IN
                 /\ r.res = OkResult
                 /\ Balances(r.acct) = Balances(accounts[c])
                 /\ r.acct.deposit_history[t].status = "Resolved")

(* C14 witness: a Resolve has just succeeded and the account again holds the
   whole deposit as available funds. *)
C14_Witness ==
    /\ Routed /\ LastRes = OkResult /\ LastTx.type = "Resolve"
    /\ LET a == accounts[LastTx.client_id] IN
          /\ a.deposit_history[LastTx.tx_id].status = "Resolved"
          /\ a.held_amount = 0
          /\ a.available_amount = a.deposit_history[LastTx.tx_id].amount
          /\ a.available_amount > 0

(* C15: a successful ChargeBack of a Disputed record with amount a gives
   held' = held - a, total' = total - a, available unchanged, status
   ChargedBack and locked = true; it succeeds only if the resulting held and
   total are non-negative. *)
C15_ChargeBackEffect ==
    [][LET tx == Unwrap(last_tx') IN
       (tx.type = "ChargeBack" /\ Unwrap(last_result') = OkResult)
          => /\ HasRecord(tx.client_id, tx.tx_id)
             /\ LET old == accounts[tx.client_id]
                    new == Target(tx)
                    a == old.deposit_history[tx.tx_id].amount IN
                /\ old.deposit_history[tx.tx_id].status = "Disputed"
                /\ new.held_amount = old.held_amount - a
                /\ new.total_amount = old.total_amount - a
                /\ new.available_amount = old.available_amount
                /\ new.deposit_history[tx.tx_id].status = "ChargedBack"
                /\ new.locked
                /\ new.held_amount >= 0
                /\ new.total_amount >= 0]_vars

(* C16: on an unlocked account a Dispute, Resolve or ChargeBack whose tx id
   keys no deposit record fails with InvalidTxId, also when the id was used
   by a Withdrawal; a Dispute of a record that is Disputed or Resolved fails
   with InvalidOperation. *)
C16_UnknownIdAndRedispute ==
    [][LET tx == Unwrap(last_tx')
           before == IF Known(tx.client_id)
                       THEN accounts[tx.client_id] ELSE Account_new(tx.client_id) IN
       ~before.locked =>
          /\ (/\ tx.type \in {"Dispute", "Resolve", "ChargeBack"}
              /\ tx.tx_id \notin DOMAIN before.deposit_history)
                => Unwrap(last_result') = InvalidTxIdError
          /\ (/\ tx.type = "Dispute"
              /\ tx.tx_id \in DOMAIN before.deposit_history
              /\ before.deposit_history[tx.tx_id].status \in {"Disputed", "Resolved"})
                => Unwrap(last_result') = InvalidOperatioonError]_vars

(* C16 witness: a Resolve naming a tx id that only a Withdrawal has used was
   refused with InvalidTxId. *)
C16_Witness ==
    /\ Routed /\ LastRes = InvalidTxIdError /\ LastTx.type = "Resolve"
    /\ HasWithdrawal(LastTx.client_id, LastTx.tx_id)
    /\ ~HasRecord(LastTx.client_id, LastTx.tx_id)
    /\ ~accounts[LastTx.client_id].locked

(* C17: routing a transaction for client c, whether it succeeds or fails,
   leaves the account of every other client unchanged and changes the set of
   accounts only by possibly adding an account for c. *)
C17_OtherAccountsUntouched ==
    [][LET c == Unwrap(last_tx').client_id IN
       /\ \A d \in DOMAIN accounts :
             d # c => d \in DOMAIN accounts' /\ accounts'[d] = accounts[d]
       /\ DOMAIN accounts \subseteq DOMAIN accounts'
       /\ DOMAIN accounts' \subseteq DOMAIN accounts \cup {c}]_vars

(* C17 witness: a transaction succeeded for one client while another client
   has an account with a deposit record. *)
C17_Witness ==
    /\ Routed /\ LastRes = OkResult
    /\ \E d \in DOMAIN accounts :
          /\ d # LastTx.client_id
          /\ accounts[d].deposit_history # EmptyMap
          /\ accounts[d].total_amount > 0

(* C19: a deposit record is added only by a successful Deposit, exactly one
   per successful Deposit and with status Normal; once present its key is
   never removed and its amount never changes; only its status may change. *)
C19_DepositRecordsPermanent ==
    [][LET tx == Unwrap(last_tx') IN
       /\ DOMAIN accounts \subseteq DOMAIN accounts'
       /\ \A c \in DOMAIN accounts' :
             LET old == IF Known(c) THEN accounts[c].deposit_history ELSE EmptyMap
                 new == accounts'[c].deposit_history
                 deposited == /\ tx.type = "Deposit"
                              /\ tx.client_id = c
                              /\ Unwrap(last_result') = OkResult IN
             /\ \A t \in DOMAIN old :
                   t \in DOMAIN new /\ new[t].amount = old[t].amount
             /\ \A t \in (DOMAIN new) \ (DOMAIN old) :
                   /\ deposited
                   /\ tx.tx_id = t
                   /\ new[t] = Deposit(adjust_scale(Unwrap(tx.amount)), "Normal")
             /\ deposited =>
                   /\ tx.tx_id \notin DOMAIN old
                   /\ DOMAIN new = (DOMAIN old) \cup {tx.tx_id}]_vars

(* C19 witness: a record has gone through Dispute and ChargeBack and still
   carries the amount it was created with. *)
C19_Witness ==
    /\ Routed /\ LastRes = OkResult /\ LastTx.type = "ChargeBack"
    /\ LET rec == accounts[LastTx.client_id].deposit_history[LastTx.tx_id] IN
          rec.status = "ChargedBack" /\ rec.amount > 0

RECURSIVE SumAmounts(_, _)

SumAmounts(history, keys) ==
    IF keys = {} THEN 0
    ELSE LET k == CHOOSE x \in keys : TRUE IN
         history[k].amount + SumAmounts(history, keys \ {k})

DisputedIds(history) == {t \in DOMAIN history : history[t].status = "Disputed"}

(* C20: in every reachable state of every account, held equals the sum of
   the amounts of its deposit records whose status is Disputed; hence
   held >= 0 and available <= total. *)
C20_HeldIsSumOfDisputed ==
    \A c \in DOMAIN accounts :
        LET a == accounts[c] IN
        /\ a.held_amount = SumAmounts(a.deposit_history, DisputedIds(a.deposit_history))
        /\ a.held_amount >= 0
        /\ a.available_amount <= a.total_amount

(* C20 witness: an account holds one Disputed record next to a record that
   is not disputed, and has funds on hold. *)
C20_Witness ==
    \E c \in DOMAIN accounts :
        LET h == accounts[c].deposit_history IN
        /\ accounts[c].held_amount > 0
        /\ DisputedIds(h) # {}
        /\ \E t \in DOMAIN h : h[t].status = "Normal" /\ h[t].amount > 0

(* C18: transactions of different clients commute: from every reachable
   router state, for any two transactions t1, t2 with different client ids,
   routing t1 then t2 gives the same accounts and the same two results as
   routing t2 then t1.  The statement is symmetric in t1 and t2, so each
   unordered pair is taken once, smaller client id first. *)
C18_DifferentClientsCommute ==
    \A t1, t2 \in Transaction :
        t1.client_id < t2.client_id =>
            LET a == Bookkeeper_on_tx(accounts, t1)
                ab == Bookkeeper_on_tx(a.accounts, t2)
                b == Bookkeeper_on_tx(accounts, t2)
                ba == Bookkeeper_on_tx(b.accounts, t1) IN
            /\ ab.accounts = ba.accounts
            /\ a.res = ba.res
            /\ b.res = ab.res

(* C18 witness: a router state with one client whose deposit is under
   dispute and no account yet for another client, so that the two orders
   create the second account at different times. *)
C18_Witness ==
    \E c \in DOMAIN accounts : \E d \in ClientIds :
        /\ d \notin DOMAIN accounts
        /\ accounts[c].held_amount > 0
        /\ DisputedIds(accounts[c].deposit_history) # {}

ChargedBackIds(history) == {t \in DOMAIN history : history[t].status = "ChargedBack"}

(* C21: in every reachable state an account is locked if and only if exactly
   one of its deposit records has status ChargedBack; an unlocked account
   has no ChargedBack record and no account ever has two. *)
C21_LockedIffOneChargedBack ==
    \A c \in DOMAIN accounts :
        LET n == Cardinality(ChargedBackIds(accounts[c].deposit_history)) IN
        /\ accounts[c].locked <=> n = 1
        /\ ~accounts[c].locked => n = 0
        /\ n <= 1

(* C21 witness: a ChargeBack has locked an account, and a further
   ChargeBack on that account was refused, leaving it with its one
   ChargedBack record. *)
C21_Witness ==
    /\ Routed /\ LastRes = LockedAccountError /\ LastTx.type = "ChargeBack"
    /\ LET a == accounts[LastTx.client_id] IN
          /\ a.locked
          /\ Cardinality(ChargedBackIds(a.deposit_history)) = 1

NotChargedBackIds(history) == (DOMAIN history) \ ChargedBackIds(history)

RECURSIVE SumRequested(_, _)

(* sum of the amounts the recorded withdrawals carried *)
SumRequested(history, keys) ==
    IF keys = {} THEN 0
    ELSE LET k == CHOOSE x \in keys : TRUE IN
         Unwrap(history[k].amount) + SumRequested(history, keys \ {k})

RECURSIVE SumWithdrawn(_, _)

(* sum of the amounts the recorded withdrawals took off the balances *)
SumWithdrawn(history, keys) ==
    IF keys = {} THEN 0
    ELSE LET k == CHOOSE x \in keys : TRUE IN
         adjust_scale(Unwrap(history[k].amount)) + SumWithdrawn(history, keys \ {k})

(* the withdrawal history holds exactly the Withdrawals that succeeded: a
   successful Withdrawal adds itself under a new key, nothing else changes
   the history *)
WithdrawalsRecorded ==
    LET tx == Unwrap(last_tx') IN
    \A c \in DOMAIN accounts' :
        LET old == IF Known(c) THEN accounts[c].withdrawal_history ELSE EmptyMap
            new == accounts'[c].withdrawal_history IN
        IF tx.type = "Withdrawal" /\ tx.client_id = c /\ Unwrap(last_result') = OkResult
          THEN tx.tx_id \notin DOMAIN old /\ new = MapInsert(old, tx.tx_id, tx)
          ELSE new = old

(* C22 (as stated): in every reachable state of every account, total equals
   the sum of the amounts of its deposit records whose status is not
   ChargedBack, minus the sum of the amounts of all Withdrawals that
   succeeded on that account. *)
C22_ConservationOfFunds ==
    \A c \in DOMAIN accounts :
        LET a == accounts[c] IN
        a.total_amount =
            SumAmounts(a.deposit_history, NotChargedBackIds(a.deposit_history))
              - SumRequested(a.withdrawal_history, DOMAIN a.withdrawal_history)

(* C22 (amended): in every reachable state of every account, total equals
   the sum of the amounts of its deposit records whose status is not
   ChargedBack, minus the sum, over all Withdrawals that succeeded on that
   account, of the withdrawal's amount rescaled to 4 decimal places, which
   is what the Withdrawal took off the balances; for an amount given with at
   most 4 decimal places this is the amount itself. *)
C22_ConservationOfRescaledFunds ==
    /\ [][WithdrawalsRecorded]_vars
    /\ [](\A c \in DOMAIN accounts :
             LET a == accounts[c] IN
             a.total_amount =
                 SumAmounts(a.deposit_history, NotChargedBackIds(a.deposit_history))
                   - SumWithdrawn(a.withdrawal_history, DOMAIN a.withdrawal_history))

(* C22 witness: an account whose only deposit was withdrawn, disputed and
   charged back, so that its total is minus the withdrawn amount. *)
C22_Witness ==
    /\ Routed /\ LastRes = OkResult /\ LastTx.type = "ChargeBack"
    /\ LET a == accounts[LastTx.client_id] IN
          /\ a.withdrawal_history # EmptyMap
          /\ NotChargedBackIds(a.deposit_history) = {}
          /\ a.total_amount < 0

(* C23: in every reachable state of an account that is not locked,
   total >= 0; total becomes negative only through the successful ChargeBack
   that locks the account, and available becomes negative only through a
   successful Dispute, never through a Deposit, Withdrawal or Resolve
   applied to non-negative balances. *)
C23_NegativeOnlyByDisputeOrChargeBack ==
    /\ [](\A c \in DOMAIN accounts :
             ~accounts[c].locked => accounts[c].total_amount >= 0)
    /\ [][LET tx == Unwrap(last_tx')
              res == Unwrap(last_result') IN
          \A c \in DOMAIN accounts' :
              LET old == IF Known(c) THEN accounts[c] ELSE Account_new(c)
                  new == accounts'[c] IN
              /\ (old.total_amount >= 0 /\ new.total_amount < 0)
                    => /\ tx.type = "ChargeBack" /\ tx.client_id = c /\ res = OkResult
                       /\ ~old.locked /\ new.locked
              /\ (old.available_amount >= 0 /\ new.available_amount < 0)
                    => tx.type = "Dispute" /\ tx.client_id = c /\ res = OkResult]_vars

(* C23 witness: a deposit was withdrawn and then disputed, which made
   available negative, and the ChargeBack that followed locked the account
   with a negative total. *)
C23_Witness ==
    /\ Routed /\ LastRes = OkResult /\ LastTx.type = "ChargeBack"
    /\ LET a == accounts[LastTx.client_id] IN
          /\ a.locked
          /\ a.total_amount < 0
          /\ a.available_amount < 0
          /\ a.held_amount = 0

=============================================================================
